---------------------------- MODULE Spec2Model ----------------------------
(***************************************************************************)
(* Model of the two diagnostic scripts of sharepoint-ai-search-sync:       *)
(*   check_index.py            the Index Inspector (a top-level script)     *)
(*   check_indexer_warnings.py the Indexer Status Reporter                  *)
(*                                                                         *)
(* Text is a sequence of one-character strings, so that slicing (s[:200]) *)
(* and prefix tests (startswith) are computed, not assumed.  A JSON value *)
(* is a tagged record: [t |-> "str", s], [t |-> "int", neg, digits],      *)
(* [t |-> "null"], [t |-> "bool", b], [t |-> "list", items],              *)
(* [t |-> "dict", items].  A JSON object whose keys are known to the code *)
(* (the stats, status and result envelopes) is a function from its keys.  *)
(* A printed line is a record whose field l names the print statement.    *)
(***************************************************************************)
EXTENDS Integers, Sequences, FiniteSets, TLC

VARIABLES
    \* Index Inspector (check_index.py)
    pc,          \* position of the script
    requests,    \* the HTTP requests issued so far, with their outcomes
    out,         \* the lines printed to standard output
    exitCode,    \* process exit status; -1 while running
    resp,        \* the response being handled
    \* Indexer Status Reporter (check_indexer_warnings.py)
    rpc,         \* position of the reporter
    indexer_name,
    rrequests,   \* the status requests issued so far
    rresp,       \* the response being handled
    rout,        \* the lines printed to standard output
    ret,         \* what get_indexer_status_details returned
    \* rendering of one document field (check_index.py, lines 55-64)
    fkey, fvalue, flines, fpc

vars == <<pc, requests, out, exitCode, resp,
          rpc, indexer_name, rrequests, rresp, rout, ret,
          fkey, fvalue, flines, fpc>>
inspectorVars == <<pc, requests, out, exitCode, resp>>
reporterVars == <<rpc, indexer_name, rrequests, rresp, rout, ret>>
renderVars == <<fkey, fvalue, flines, fpc>>

----------------------------------------------------------------------------
(* Bounds of the model *)

\* how far past a truncation limit the lengths of the inputs go
MaxOver == 2
\* the longest non-empty sequence value of a document field
MaxItems == 3
\* the longest execution history
MaxHistory == 3
\* the number of field-presence patterns of the error and warning entries
MaxPattern == 1

(* Constants of the program *)

StatusOK == 200
StrLimit == 200
ItemLimit == 100
OtherLimit == 200
ErrorLimit == 10
WarningLimit == 20
RecentLimit == 5

----------------------------------------------------------------------------
(* Python helpers *)

Min(a, b) == IF a < b THEN a ELSE b

\* s[:n]
Take(s, n) == SubSeq(s, 1, Min(Len(s), n))

\* d.get(k, default) on an object modelled as a function from its keys
Get(d, k, default) == IF k \in DOMAIN d THEN d[k] ELSE default

\* key.startswith(prefix)
StartsWith(s, prefix) ==
    /\ Len(s) >= Len(prefix)
    /\ SubSeq(s, 1, Len(prefix)) = prefix

Ellipsis == <<".", ".", ".">>

DigitChar(d) == <<"0", "1", "2", "3", "4", "5", "6", "7", "8", "9">>[d + 1]

\* str(n) of a natural number
RECURSIVE NatStr(_)
NatStr(n) == IF n < 10 THEN <<DigitChar(n)>>
             ELSE NatStr(n \div 10) \o <<DigitChar(n % 10)>>

\* str(value) and repr(value).  repr of a string is quoted; the strings of
\* the model hold letters only, so no escaping arises.
RECURSIVE PyStr(_), PyRepr(_), JoinRepr(_), JoinItems(_)
PyStr(v) ==
    CASE v.t = "str" -> v.s
      [] v.t = "int" -> (IF v.neg THEN <<"-">> ELSE <<>>)
                          \o [i \in 1..Len(v.digits) |-> DigitChar(v.digits[i])]
      [] v.t = "null" -> <<"N", "o", "n", "e">>
      [] v.t = "bool" -> IF v.b THEN <<"T", "r", "u", "e">>
                                ELSE <<"F", "a", "l", "s", "e">>
      [] v.t = "list" -> <<"[">> \o JoinRepr(v.items) \o <<"]">>
      [] v.t = "dict" -> <<"{">> \o JoinItems(v.items) \o <<"}">>
PyRepr(v) == IF v.t = "str" THEN <<"'">> \o v.s \o <<"'">> ELSE PyStr(v)
JoinRepr(items) ==
    IF items = <<>> THEN <<>>
    ELSE IF Len(items) = 1 THEN PyRepr(items[1])
    ELSE PyRepr(items[1]) \o <<",", " ">> \o JoinRepr(Tail(items))
JoinItems(items) ==
    IF items = <<>> THEN <<>>
    ELSE LET one == PyRepr([t |-> "str", s |-> items[1][1]])
                      \o <<":", " ">> \o PyRepr(items[1][2])
         IN IF Len(items) = 1 THEN one
            ELSE one \o <<",", " ">> \o JoinItems(Tail(items))

----------------------------------------------------------------------------
(* Rendering of a sample document: check_index.py, lines 51-65 *)

ListDisplayAlwaysCut(value) ==
    <<"[">> \o NatStr(Len(value.items)) \o <<" ", "i", "t", "e", "m", "s", "]", " ">>
        \o (IF Len(PyStr(value.items[1])) > ItemLimit
            THEN Take(PyStr(value.items[1]), ItemLimit) \o Ellipsis
            ELSE PyStr(value.items[1]))

\* line 61: f"[{len(value)} items] {str(value[0])[:100]}..."
ListDisplay(value) ==
    <<"[">> \o NatStr(Len(value.items)) \o <<" ", "i", "t", "e", "m", "s", "]", " ">>
        \o Take(PyStr(value.items[1]), ItemLimit) \o Ellipsis

StrDisplayOffByOne(s) ==
    IF Len(s) >= StrLimit THEN Take(s, StrLimit) \o Ellipsis ELSE s

\* line 59: value[:200] + '...' if len(value) > 200 else value
StrDisplay(s) ==
    IF Len(s) > StrLimit THEN Take(s, StrLimit) \o Ellipsis ELSE s

\* lines 58-63
DisplayValue(value) ==
    IF value.t = "str" THEN StrDisplay(value.s)
    ELSE IF value.t = "list" /\ Len(value.items) > 0 THEN ListDisplay(value)
    ELSE Take(PyStr(value), OtherLimit)

\* lines 55-64, one iteration: the lines printed for one field
FieldLines(key, value) ==
    IF StartsWith(key, <<"@">>) THEN <<>>
    ELSE <<[l |-> "Field", key |-> key, v |-> DisplayValue(value)]>>

RECURSIVE FieldsLines(_)
FieldsLines(doc) ==
    IF doc = <<>> THEN <<>>
    ELSE FieldLines(doc[1][1], doc[1][2]) \o FieldsLines(Tail(doc))

\* lines 52-65: a document is the sequence of its <<key, value>> items
DocLines(i, doc) ==
    <<[l |-> "Document", i |-> i],
      [l |-> "AvailableFields", keys |-> [k \in 1..Len(doc) |-> doc[k][1]]],
      [l |-> "Blank"]>>
    \o FieldsLines(doc) \o <<[l |-> "Blank"]>>

RECURSIVE DocsLines(_, _)
DocsLines(i, docs) ==
    IF docs = <<>> THEN <<>>
    ELSE DocLines(i, docs[1]) \o DocsLines(i + 1, Tail(docs))

----------------------------------------------------------------------------
(* The inputs of the rendering *)

Letters == <<"a", "b", "c">>
Text(n, seed) == [i \in 1..n |-> Letters[((i + seed) % 3) + 1]]
StrV(s) == [t |-> "str", s |-> s]
IntV(neg, n) == [t |-> "int", neg |-> neg, digits |-> [i \in 1..n |-> ((i + 2) % 9) + 1]]
NullV == [t |-> "null"]
BoolV(b) == [t |-> "bool", b |-> b]
ListV(items) == [t |-> "list", items |-> items]
DictV(items) == [t |-> "dict", items |-> items]

Lengths == {0, 1} \cup ((ItemLimit - 1)..(ItemLimit + MaxOver))
                  \cup ((StrLimit - 1)..(StrLimit + MaxOver))
StrValues == {StrV(Text(n, seed)) : n \in Lengths, seed \in 0..1}
IntValues == {IntV(neg, n) : neg \in BOOLEAN,
                             n \in {1, 2} \cup ((OtherLimit - 1)..(OtherLimit + MaxOver))}
DictValues == {DictV(<<>>), DictV(<<<<Text(1, 0), NullV>>>>),
               DictV(<<<<Text(2, 0), StrV(Text(OtherLimit, 1))>>, <<Text(1, 1), BoolV(TRUE)>>>>)}
ScalarValues == StrValues \cup IntValues \cup DictValues
                    \cup {NullV, BoolV(TRUE), BoolV(FALSE)}
FirstItems == ScalarValues \cup {ListV(<<>>), ListV(<<IntV(FALSE, 1), StrV(Text(2, 0))>>)}
ListValues == {ListV(<<>>)} \cup
    {ListV(<<first>> \o [i \in 1..(n - 1) |-> NullV]) :
        first \in FirstItems, n \in (1..MaxItems) \cup {MaxItems + 9}}
Values == ScalarValues \cup ListValues
Keys == {<<>>, <<"@">>, <<"@", "s">>, <<"t", "@">>, <<"i", "d">>}

InitRender ==
    /\ fkey \in Keys
    /\ fvalue \in Values
    /\ flines = <<>>
    /\ fpc = "field"

\* the body of the loop over doc.items() applied to the field
RenderField ==
    /\ fpc = "field"
    /\ flines' = FieldLines(fkey, fvalue)
    /\ fpc' = "printed"
    /\ UNCHANGED <<fkey, fvalue>>
    /\ UNCHANGED <<inspectorVars, reporterVars>>

\* the loop moves on to the document's next field
NextField ==
    /\ fpc = "printed"
    /\ fkey' \in Keys
    /\ fvalue' \in Values
    /\ flines' = <<>>
    /\ fpc' = "field"
    /\ UNCHANGED <<inspectorVars, reporterVars>>

----------------------------------------------------------------------------
(* HTTP responses *)

\* A response body: its raw text is the body itself; json() of it raises
\* unless j = "object" or j = "array", and .get on an array raises.
InvalidBody == [j |-> "invalid"]
ArrayBody == [j |-> "array"]
ObjectBody(o) == [j |-> "object", o |-> o]

\* requests.get / requests.post either returns a response or raises
Raised == [kind |-> "raise"]
Response(status, body) == [kind |-> "response", status |-> status, body |-> body]

RECURSIVE Flatten(_)
Flatten(ss) == IF ss = <<>> THEN <<>> ELSE ss[1] \o Flatten(Tail(ss))

\* an object built from optional members
Opt(present, k, v) == IF present THEN (k :> v) ELSE <<>>

----------------------------------------------------------------------------
(* Indexer Status Reporter: check_indexer_warnings.py *)

\* a member that may be null: the value of lastResult
NullObj == [t |-> "null"]
Obj(o) == [t |-> "obj", o |-> o]
\* truth value of None and of a dict
Truthy(v) == v.t = "obj" /\ DOMAIN v.o # {}

ErrorLinesByMessage(errors) ==
    Flatten([i \in 1..Min(Len(errors), ErrorLimit) |->
        <<[l |-> "Error", i |-> i, v |-> Get(errors[i], "message", "Unknown error")],
          [l |-> "ErrorKey", v |-> Get(errors[i], "key", "N/A")],
          [l |-> "ErrorName", v |-> Get(errors[i], "name", "N/A")]>>])

\* lines 43-46: for i, error in enumerate(errors[:10], 1)
ErrorLines(errors) ==
    Flatten([i \in 1..Min(Len(errors), ErrorLimit) |->
        <<[l |-> "Error", i |-> i, v |-> Get(errors[i], "errorMessage", "Unknown error")],
          [l |-> "ErrorKey", v |-> Get(errors[i], "key", "N/A")],
          [l |-> "ErrorName", v |-> Get(errors[i], "name", "N/A")]>>])

WarningLinesUnbounded(warnings) ==
    Flatten([i \in 1..Len(warnings) |->
        <<[l |-> "Warning", i |-> i, v |-> Get(warnings[i], "message", "Unknown warning")],
          [l |-> "WarningKey", v |-> Get(warnings[i], "key", "N/A")],
          [l |-> "WarningName", v |-> Get(warnings[i], "name", "N/A")],
          [l |-> "WarningDetails", v |-> Get(warnings[i], "details", "N/A")],
          [l |-> "Blank"]>>])

\* lines 52-57: for i, warning in enumerate(warnings[:20], 1)
WarningLines(warnings) ==
    Flatten([i \in 1..Min(Len(warnings), WarningLimit) |->
        <<[l |-> "Warning", i |-> i, v |-> Get(warnings[i], "message", "Unknown warning")],
          [l |-> "WarningKey", v |-> Get(warnings[i], "key", "N/A")],
          [l |-> "WarningName", v |-> Get(warnings[i], "name", "N/A")],
          [l |-> "WarningDetails", v |-> Get(warnings[i], "details", "N/A")],
          [l |-> "Blank"]>>])

\* lines 40-46
ErrorsBlock(last_result) ==
    LET errors == Get(last_result, "errors", <<>>)
    IN IF errors # <<>>
       THEN <<[l |-> "ErrorsHeader", n |-> Len(errors)]>> \o ErrorLines(errors)
       ELSE <<>>

\* lines 49-57
WarningsBlock(last_result) ==
    LET warnings == Get(last_result, "warnings", <<>>)
    IN IF warnings # <<>>
       THEN <<[l |-> "WarningsHeader", n |-> Len(warnings)]>> \o WarningLines(warnings)
       ELSE <<>>

LastRunLinesUnlessNull(status_data) ==
    LET last_result == Get(status_data, "lastResult", Obj(<<>>))
    IN IF last_result.t = "obj"
       THEN <<[l |-> "LastRun"],
              [l |-> "LastStatus", v |-> Get(last_result.o, "status", "None")],
              [l |-> "ItemsProcessed", v |-> Get(last_result.o, "itemsProcessed", 0)],
              [l |-> "ItemsFailed", v |-> Get(last_result.o, "itemsFailed", 0)]>>
            \o ErrorsBlock(last_result.o) \o WarningsBlock(last_result.o)
       ELSE <<>>

\* lines 32-57
LastRunLines(status_data) ==
    LET last_result == Get(status_data, "lastResult", Obj(<<>>))
    IN IF Truthy(last_result)
       THEN <<[l |-> "LastRun"],
              [l |-> "LastStatus", v |-> Get(last_result.o, "status", "None")],
              [l |-> "ItemsProcessed", v |-> Get(last_result.o, "itemsProcessed", 0)],
              [l |-> "ItemsFailed", v |-> Get(last_result.o, "itemsFailed", 0)]>>
            \o ErrorsBlock(last_result.o) \o WarningsBlock(last_result.o)
       ELSE <<>>

\* lines 68-69: for i, warning in enumerate(warnings[:5], 1)
RecentWarningLines(warnings) ==
    [i \in 1..Min(Len(warnings), RecentLimit) |->
        [l |-> "RecentWarning", i |-> i, v |-> Get(warnings[i], "message", "Unknown")]]

\* lines 60-69
HistoryLines(status_data) ==
    LET history == Get(status_data, "executionHistory", <<>>)
    IN IF history # <<>> /\ Len(history) > 1
       THEN LET recent == history[1]
                warnings == Get(recent, "warnings", <<>>)
            IN <<[l |-> "RecentExecution"],
                 [l |-> "RecentStatus", v |-> Get(recent, "status", "None")]>>
               \o (IF warnings # <<>>
                   THEN <<[l |-> "RecentWarnings", n |-> Len(warnings)]>>
                            \o RecentWarningLines(warnings)
                   ELSE <<>>)
       ELSE <<>>

\* lines 29-69: everything printed for a parsed payload
ReportLines(name, status_data) ==
    <<[l |-> "Indexer", name |-> name],
      [l |-> "Status", v |-> Get(status_data, "status", "None")]>>
    \o LastRunLines(status_data) \o HistoryLines(status_data)

----------------------------------------------------------------------------
(* The inputs of the reporter: the responses of the indexer-status endpoint *)

Bit(m, k) == (m \div k) % 2 = 1

\* entry i of a warnings sequence; which members it has varies with i and p
WarningEntry(tag, i, p) ==
    LET m == (i + p) % 16
    IN Opt(Bit(m, 1), "message", tag \o ToString(i))
       @@ Opt(Bit(m, 2), "key", tag \o "-key" \o ToString(i))
       @@ Opt(Bit(m, 4), "name", tag \o "-name" \o ToString(i))
       @@ Opt(Bit(m, 8), "details", tag \o "-details" \o ToString(i))
WarningList(tag, n, p) == [i \in 1..n |-> WarningEntry(tag, i, p)]

\* entry i of an errors sequence; an entry may carry errorMessage, message,
\* both or neither
ErrorEntry(i, p) ==
    LET m == (i + p) % 16
    IN Opt(Bit(m, 1), "errorMessage", "e" \o ToString(i))
       @@ Opt(Bit(m, 2), "key", "e-key" \o ToString(i))
       @@ Opt(Bit(m, 4), "name", "e-name" \o ToString(i))
       @@ Opt(Bit(m, 8), "message", "m" \o ToString(i))
ErrorList(n, p) == [i \in 1..n |-> ErrorEntry(i, p)]

\* sequence lengths around a limit; -1 stands for an absent member
LensAround(limit) == {-1, 0, 1} \cup ((limit - 1)..(limit + MaxOver))

LastResults ==
    {NullObj, Obj(<<>>)} \cup
    {Obj(Opt(sc, "status", "success") @@ Opt(sc, "itemsProcessed", 7)
         @@ Opt(sc, "itemsFailed", 2)
         @@ Opt(e >= 0, "errors", ErrorList(e, p))
         @@ Opt(w >= 0, "warnings", WarningList("w", w, p))) :
        sc \in BOOLEAN, e \in LensAround(ErrorLimit),
        w \in LensAround(WarningLimit), p \in 0..MaxPattern}

HistoryEntry(j, n) ==
    ("status" :> ("run" \o ToString(j)))
    @@ Opt(n >= 0, "warnings", WarningList("h" \o ToString(j) \o "w", n, j))

\* most recent first; the first entry's warnings vary around the limit
Histories ==
    {<<>>} \cup
    {[j \in 1..n |-> HistoryEntry(j, IF j = 1 THEN a ELSE IF j = 2 THEN b ELSE -1)] :
        n \in 1..MaxHistory, a \in LensAround(RecentLimit), b \in {-1, 2}}

Payloads ==
    {Opt(s, "status", "running") @@ Opt(hl, "lastResult", lr)
        @@ Opt(hh, "executionHistory", h) :
        s \in BOOLEAN, hl \in BOOLEAN, hh \in BOOLEAN,
        lr \in LastResults, h \in Histories}

ErrorStatuses == {404, 500}
ErrorBodies == {InvalidBody, ObjectBody("status" :> "running")}

ReporterOutcomes ==
    {Raised}
    \cup {Response(StatusOK, b) : b \in {InvalidBody, ArrayBody}}
    \cup {Response(StatusOK, ObjectBody(o)) : o \in Payloads}
    \cup {Response(st, b) : st \in ErrorStatuses, b \in ErrorBodies}

IndexerNames == {"pp-dev-navi-bki-code-ix", "ix-from-argv"}

InitReporter ==
    /\ rpc = "main"
    /\ indexer_name = ""
    /\ rrequests = <<>>
    /\ rresp = Raised
    /\ rout = <<>>
    /\ ret = [t |-> "pending"]

\* lines 77-79: the indexer name is argv[1], or the literal default
Main ==
    /\ rpc = "main"
    /\ indexer_name' \in IndexerNames
    /\ rpc' = "call"
    /\ UNCHANGED <<rrequests, rresp, rout, ret>>
    /\ UNCHANGED <<inspectorVars, renderVars>>

\* lines 17-24: the one GET of the status endpoint
Request ==
    /\ rpc = "call"
    /\ \E r \in ReporterOutcomes :
        /\ rrequests' = Append(rrequests, [req |-> "status", outcome |-> r])
        /\ IF r.kind = "raise"
           THEN rpc' = "raised" /\ UNCHANGED rresp
           ELSE rpc' = "response" /\ rresp' = r
    /\ UNCHANGED <<indexer_name, rout, ret>>
    /\ UNCHANGED <<inspectorVars, renderVars>>

ReportErrorReturnsBody ==
    /\ rpc = "response"
    /\ rresp.status # StatusOK
    /\ rout' = rout \o <<[l |-> "HttpError", code |-> rresp.status],
                         [l |-> "Body", text |-> rresp.body]>>
    /\ ret' = [t |-> "value", v |-> rresp.body]
    /\ rpc' = "returned"
    /\ UNCHANGED <<indexer_name, rrequests, rresp>>
    /\ UNCHANGED <<inspectorVars, renderVars>>

\* lines 72-75
ReportError ==
    /\ rpc = "response"
    /\ rresp.status # StatusOK
    /\ rout' = rout \o <<[l |-> "HttpError", code |-> rresp.status],
                         [l |-> "Body", text |-> rresp.body]>>
    /\ ret' = [t |-> "none"]
    /\ rpc' = "returned"
    /\ UNCHANGED <<indexer_name, rrequests, rresp>>
    /\ UNCHANGED <<inspectorVars, renderVars>>

\* line 27 (json() raises on a body that is not JSON) and line 30 (.get
\* raises on a JSON value that is no object): nothing is printed or returned
RenderRaise ==
    /\ rpc = "response"
    /\ rresp.status = StatusOK
    /\ rresp.body.j # "object"
    /\ rpc' = "raised"
    /\ UNCHANGED <<indexer_name, rrequests, rresp, rout, ret>>
    /\ UNCHANGED <<inspectorVars, renderVars>>

\* lines 26-71
Render200 ==
    /\ rpc = "response"
    /\ rresp.status = StatusOK
    /\ rresp.body.j = "object"
    /\ rout' = rout \o ReportLines(indexer_name, rresp.body.o)
    /\ ret' = [t |-> "value", v |-> rresp.body.o]
    /\ rpc' = "returned"
    /\ UNCHANGED <<indexer_name, rrequests, rresp>>
    /\ UNCHANGED <<inspectorVars, renderVars>>

----------------------------------------------------------------------------
(* Index Inspector: check_index.py *)

\* lines 27-30
StatsLines(stats) ==
    <<[l |-> "DocumentCount", v |-> Get(stats, "documentCount", 0)],
      [l |-> "StorageSize", v |-> Get(stats, "storageSize", 0)],
      [l |-> "VectorIndexSize", v |-> Get(stats, "vectorIndexSize", 0)],
      [l |-> "Blank"]>>

\* line 48: results.get('@odata.count') or len(results.get('value', []));
\* an absent count (None) and a count of 0 are both false
DocCount(results) ==
    LET count == Get(results, "@odata.count", 0)
    IN IF count # 0 THEN count ELSE Len(Get(results, "value", <<>>))

\* lines 48-65
SearchLines(results) ==
    <<[l |-> "TotalDocuments", n |-> DocCount(results)]>>
    \o DocsLines(1, Get(results, "value", <<>>))

\* lines 88-97
VectorLines(results) ==
    LET value == Get(results, "value", <<>>)
    IN <<[l |-> "VectorCount", n |-> Len(value)]>>
       \o Flatten([i \in 1..Len(value) |->
            <<[l |-> "Result", i |-> i],
              [l |-> "Score", v |-> Get(value[i], "@search.score", "N/A")],
              [l |-> "Title", v |-> Get(value[i], "title", "N/A")],
              [l |-> "SourceUrl", v |-> Get(value[i], "source_url", "N/A")],
              [l |-> "Blank"]>>])
       \o <<[l |-> "VectorSuccess"]>>

(* The inputs of the inspector: the outcomes of its three requests *)

StatsBodies ==
    {InvalidBody, ArrayBody} \cup
    {ObjectBody(Opt(a, "documentCount", 42) @@ Opt(b, "storageSize", 1000)
                @@ Opt(c, "vectorIndexSize", 200)) : a, b, c \in BOOLEAN}

DocA == << << <<"@", "s">>, IntV(FALSE, 1) >>,
           << <<"t">>, StrV(Text(StrLimit + 1, 0)) >>,
           << <<"v">>, ListV(<<StrV(Text(2, 0)), NullV>>) >> >>
DocB == << << <<"i", "d">>, IntV(FALSE, 2) >> >>
DocC == <<>>
SearchDocs == {<<>>, <<DocA>>, <<DocB, DocA>>, <<DocA, DocB, DocC>>}
SearchBodies ==
    {InvalidBody, ArrayBody} \cup
    {ObjectBody(Opt(c >= 0, "@odata.count", c) @@ Opt(hv, "value", docs)) :
        c \in {-1, 0, 5}, hv \in BOOLEAN, docs \in SearchDocs}

Hit(a, b, c) == Opt(a, "@search.score", "0.83") @@ Opt(b, "title", "NCEMS")
                    @@ Opt(c, "source_url", "https://host/doc")
VectorHits == {<<>>, <<Hit(TRUE, TRUE, TRUE)>>,
               <<Hit(FALSE, TRUE, FALSE), Hit(TRUE, FALSE, TRUE)>>,
               <<Hit(FALSE, FALSE, FALSE)>>}
VectorBodies ==
    {InvalidBody, ArrayBody} \cup
    {ObjectBody(Opt(hv, "value", hits)) : hv \in BOOLEAN, hits \in VectorHits}

Outcomes(bodies) ==
    {Raised}
    \cup {Response(StatusOK, b) : b \in bodies}
    \cup {Response(st, b) : st \in ErrorStatuses, b \in ErrorBodies}

InitInspector ==
    /\ pc = "stats"
    /\ requests = <<>>
    /\ out = <<>>
    /\ exitCode = -1
    /\ resp = Raised

\* a request is issued; it returns a response or raises, and an exception
\* nothing catches ends the process with status 1
Issue(name, header, bodies, next) ==
    \E r \in Outcomes(bodies) :
        /\ requests' = Append(requests, [req |-> name, outcome |-> r])
        /\ out' = Append(out, [l |-> header])
        /\ IF r.kind = "raise"
           THEN pc' = "raised" /\ exitCode' = 1 /\ UNCHANGED resp
           ELSE pc' = next /\ resp' = r /\ UNCHANGED exitCode

\* json() or the first .get raises: the traceback goes to standard error
Raise ==
    /\ pc' = "raised"
    /\ exitCode' = 1
    /\ UNCHANGED <<requests, out, resp>>

\* lines 21-23
FetchStats ==
    /\ pc = "stats"
    /\ Issue("stats", "StatsHeader", StatsBodies, "stats_response")
    /\ UNCHANGED <<reporterVars, renderVars>>

\* lines 25-30
Stats200 ==
    /\ pc = "stats_response"
    /\ resp.status = StatusOK
    /\ IF resp.body.j = "object"
       THEN /\ out' = out \o StatsLines(resp.body.o)
            /\ pc' = "search"
            /\ UNCHANGED <<requests, exitCode, resp>>
       ELSE Raise
    /\ UNCHANGED <<reporterVars, renderVars>>

StatsFailContinues ==
    /\ pc = "stats_response"
    /\ resp.status # StatusOK
    /\ out' = out \o <<[l |-> "StatsError", code |-> resp.status],
                       [l |-> "Body", text |-> resp.body]>>
    /\ pc' = "search"
    /\ UNCHANGED <<requests, exitCode, resp>>
    /\ UNCHANGED <<reporterVars, renderVars>>

StatsFailExitsZero ==
    /\ pc = "stats_response"
    /\ resp.status # StatusOK
    /\ out' = out \o <<[l |-> "StatsError", code |-> resp.status],
                       [l |-> "Body", text |-> resp.body]>>
    /\ pc' = "exited"
    /\ exitCode' = 0
    /\ UNCHANGED <<requests, resp>>
    /\ UNCHANGED <<reporterVars, renderVars>>

\* lines 31-34
StatsFail ==
    /\ pc = "stats_response"
    /\ resp.status # StatusOK
    /\ out' = out \o <<[l |-> "StatsError", code |-> resp.status],
                       [l |-> "Body", text |-> resp.body]>>
    /\ pc' = "exited"
    /\ exitCode' = 1
    /\ UNCHANGED <<requests, resp>>
    /\ UNCHANGED <<reporterVars, renderVars>>

\* lines 37-44
FetchSearch ==
    /\ pc = "search"
    /\ Issue("search", "SampleHeader", SearchBodies, "search_response")
    /\ UNCHANGED <<reporterVars, renderVars>>

\* lines 46-65
Search200 ==
    /\ pc = "search_response"
    /\ resp.status = StatusOK
    /\ IF resp.body.j = "object"
       THEN /\ out' = out \o SearchLines(resp.body.o)
            /\ pc' = "vector"
            /\ UNCHANGED <<requests, exitCode, resp>>
       ELSE Raise
    /\ UNCHANGED <<reporterVars, renderVars>>

SearchFailExits ==
    /\ pc = "search_response"
    /\ resp.status # StatusOK
    /\ out' = out \o <<[l |-> "SearchError", code |-> resp.status],
                       [l |-> "Body", text |-> resp.body]>>
    /\ pc' = "exited"
    /\ exitCode' = 1
    /\ UNCHANGED <<requests, resp>>
    /\ UNCHANGED <<reporterVars, renderVars>>

\* lines 66-68
SearchFail ==
    /\ pc = "search_response"
    /\ resp.status # StatusOK
    /\ out' = out \o <<[l |-> "SearchError", code |-> resp.status],
                       [l |-> "Body", text |-> resp.body]>>
    /\ pc' = "vector"
    /\ UNCHANGED <<requests, exitCode, resp>>
    /\ UNCHANGED <<reporterVars, renderVars>>

\* lines 71-84
FetchVector ==
    /\ pc = "vector"
    /\ Issue("vector", "VectorHeader", VectorBodies, "vector_response")
    /\ UNCHANGED <<reporterVars, renderVars>>

\* lines 86-97, then the end of the script
Vector200 ==
    /\ pc = "vector_response"
    /\ resp.status = StatusOK
    /\ IF resp.body.j = "object"
       THEN /\ out' = out \o VectorLines(resp.body.o)
            /\ pc' = "done"
            /\ exitCode' = 0
            /\ UNCHANGED <<requests, resp>>
       ELSE Raise
    /\ UNCHANGED <<reporterVars, renderVars>>

\* lines 98-100, then the end of the script
VectorFail ==
    /\ pc = "vector_response"
    /\ resp.status # StatusOK
    /\ out' = out \o <<[l |-> "VectorError", code |-> resp.status],
                       [l |-> "Body", text |-> resp.body]>>
    /\ pc' = "done"
    /\ exitCode' = 0
    /\ UNCHANGED <<requests, resp>>
    /\ UNCHANGED <<reporterVars, renderVars>>

----------------------------------------------------------------------------
(* Specifications: each tool runs on its own; the other's state is idle *)

NextInspector ==
    \/ FetchStats \/ Stats200 \/ StatsFail
    \/ FetchSearch \/ Search200 \/ SearchFail
    \/ FetchVector \/ Vector200 \/ VectorFail

NextReporter == Main \/ Request \/ Render200 \/ RenderRaise \/ ReportError

NextRender == RenderField \/ NextField

\* the initial state of a run of the inspector or of the reporter
InitTools ==
    /\ InitInspector
    /\ InitReporter
    /\ fkey = <<>> /\ fvalue = NullV /\ flines = <<>> /\ fpc = "field"

\* the initial state of the rendering of one field
InitFields == InitInspector /\ InitReporter /\ InitRender

SpecInspector == InitTools /\ [][NextInspector]_vars

SpecReporter == InitTools /\ [][NextReporter]_vars

SpecRender == InitFields /\ [][NextRender]_vars

----------------------------------------------------------------------------
(* Properties of the Index Inspector, checked under SpecInspector *)

\* the printed lines of the given kinds, in order
Select(lines, kinds) == SelectSeq(lines, LAMBDA x : x.l \in kinds)

Names == [i \in 1..Len(requests) |-> requests[i].req]
Terminal == pc \in {"done", "exited", "raised"}
\* request i was issued and got a response
Responded(i) == Len(requests) >= i /\ requests[i].outcome.kind = "response"
Returned200(i) == Responded(i) /\ requests[i].outcome.status = 200
ReturnedNon200(i) == Responded(i) /\ requests[i].outcome.status # 200
AllResponded == \A i \in 1..Len(requests) : Responded(i)
\* an exception nothing catches: a request raised, or a 200 response carried
\* a body that is not a JSON object
Unhandled ==
    \E i \in 1..Len(requests) :
        \/ requests[i].outcome.kind = "raise"
        \/ Returned200(i) /\ requests[i].outcome.body.j # "object"

\* C1: when the stats request returns a status other than 200, the run prints
\* the status code and the raw body and terminates at once: the stats request
\* stays the only request issued and the body is the last line printed.
C1_StatsFailureIsFatal ==
    (ReturnedNon200(1) /\ pc # "stats_response") =>
        /\ pc = "exited"
        /\ Names = <<"stats">>
        /\ out = <<[l |-> "StatsHeader"],
                   [l |-> "StatsError", code |-> requests[1].outcome.status],
                   [l |-> "Body", text |-> requests[1].outcome.body]>>

C1_Witness ==
    /\ pc = "exited"
    /\ requests[1].outcome.status = 404
    /\ out[Len(out)].l = "Body"

\* C2 as stated: once the stats request has returned 200, the three requests
\* are issued in the fixed order, each exactly once (stated for the runs in
\* which every request got a response).
C2_Original ==
    (Terminal /\ AllResponded /\ Returned200(1)) =>
        Names = <<"stats", "search", "vector">>

\* C2 as amended: the requests are issued in the order stats, search, vector,
\* each at most once; once stats has returned 200 each is issued exactly once
\* unless an unhandled exception ends the run; a non-200 search response is
\* reported and the vector probe is still issued; a non-200 vector response is
\* reported and the exit status stays zero.
C2_Amended ==
    /\ Names = SubSeq(<<"stats", "search", "vector">>, 1, Len(requests))
    /\ (Terminal /\ Returned200(1) /\ ~Unhandled) =>
            Names = <<"stats", "search", "vector">>
    /\ (ReturnedNon200(2) /\ pc # "search_response") =>
            /\ Select(out, {"SearchError"})
                   = <<[l |-> "SearchError", code |-> requests[2].outcome.status]>>
            /\ \E k \in 1..(Len(out) - 1) :
                   /\ out[k].l = "SearchError"
                   /\ out[k + 1] = [l |-> "Body", text |-> requests[2].outcome.body]
            /\ pc # "exited"
            /\ Terminal => Len(requests) = 3
    /\ (ReturnedNon200(3) /\ pc # "vector_response") =>
            /\ pc = "done"
            /\ exitCode = 0
            /\ SubSeq(out, Len(out) - 1, Len(out))
                   = <<[l |-> "VectorError", code |-> requests[3].outcome.status],
                       [l |-> "Body", text |-> requests[3].outcome.body]>>

C2_Witness ==
    /\ pc = "done"
    /\ ReturnedNon200(2)
    /\ ReturnedNon200(3)
    /\ Names = <<"stats", "search", "vector">>

\* C7 as stated: the exit status is non-zero if and only if the stats request
\* returned a non-200 response, also when a 200 response carries a body that
\* is not valid JSON (stated for the runs in which every request got a
\* response).
C7_Original ==
    (Terminal /\ AllResponded) => (exitCode # 0 <=> ReturnedNon200(1))

\* C7 as amended: the exit status is non-zero if and only if the stats request
\* returned a non-200 response or an unhandled exception ended the run (a
\* request raised, or a 200 response carried a body that is not a JSON
\* object); non-200 search and vector responses leave it zero.
C7_Amended ==
    /\ Terminal => (exitCode # 0 <=> (ReturnedNon200(1) \/ Unhandled))
    /\ Terminal => exitCode \in {0, 1}
    /\ ~Terminal => exitCode = -1

C7_Witness ==
    /\ pc = "raised"
    /\ ReturnedNon200(2)
    /\ Returned200(3)
    /\ requests[3].outcome.body = InvalidBody
    /\ exitCode = 1

----------------------------------------------------------------------------
(* Properties of the rendering of a field, checked under SpecRender *)

IsMetadata(key) == key # <<>> /\ key[1] = "@"
Dots == <<".", ".", ".">>

\* C8: a non-metadata string field longer than 200 characters is displayed as
\* its first 200 characters followed by "...", a string of at most 200
\* characters is displayed unchanged, and a field whose name starts with "@"
\* is not displayed.
C8_StringTruncation ==
    fpc = "printed" =>
        /\ IsMetadata(fkey) => flines = <<>>
        /\ (~IsMetadata(fkey) /\ fvalue.t = "str") =>
            /\ Len(flines) = 1
            /\ flines[1].l = "Field"
            /\ flines[1].key = fkey
            /\ IF Len(fvalue.s) > 200
               THEN /\ Len(flines[1].v) = 203
                    /\ \A i \in 1..200 : flines[1].v[i] = fvalue.s[i]
                    /\ SubSeq(flines[1].v, 201, 203) = Dots
               ELSE flines[1].v = fvalue.s

C8_Witness ==
    /\ fpc = "printed"
    /\ ~IsMetadata(fkey)
    /\ fvalue.t = "str"
    /\ Len(fvalue.s) = 201
    /\ Len(flines[1].v) = 203

\* C9: a non-metadata field holding a sequence of N > 0 items is displayed as
\* "[N items] ", the first 100 characters of the stringified first item and
\* "...", whatever the item's length; an empty sequence and any other
\* non-string value is displayed as its stringification cut to 200
\* characters, with no ellipsis.
C9_SequenceDisplay ==
    (fpc = "printed" /\ ~IsMetadata(fkey) /\ fvalue.t # "str") =>
        /\ Len(flines) = 1
        /\ IF fvalue.t = "list" /\ Len(fvalue.items) > 0
           THEN LET first == PyStr(fvalue.items[1])
                    cut == IF Len(first) > 100 THEN SubSeq(first, 1, 100) ELSE first
                IN flines[1].v =
                       <<"[">> \o NatStr(Len(fvalue.items))
                           \o <<" ", "i", "t", "e", "m", "s", "]", " ">>
                           \o cut \o Dots
           ELSE LET whole == PyStr(fvalue)
                IN flines[1].v =
                       (IF Len(whole) > 200 THEN SubSeq(whole, 1, 200) ELSE whole)

C9_Witness ==
    /\ fpc = "printed"
    /\ ~IsMetadata(fkey)
    /\ fvalue.t = "list"
    /\ Len(fvalue.items) = 2
    /\ Len(PyStr(fvalue.items[1])) = 99
    /\ Len(flines[1].v) = 112

----------------------------------------------------------------------------
(* Properties of the Indexer Status Reporter, checked under SpecReporter *)

\* the call has ended on a 200 response whose body parsed to an object
Reported == rpc = "returned" /\ rresp.status = 200
Payload == rresp.body.o
HasLastResult(p) == "lastResult" \in DOMAIN p /\ p.lastResult.t = "obj"
\* the errors, warnings and history of a payload; <<>> when absent
ErrorsOf(p) ==
    IF HasLastResult(p) /\ "errors" \in DOMAIN p.lastResult.o
    THEN p.lastResult.o.errors ELSE <<>>
WarningsOf(p) ==
    IF HasLastResult(p) /\ "warnings" \in DOMAIN p.lastResult.o
    THEN p.lastResult.o.warnings ELSE <<>>
HistoryOf(p) ==
    IF "executionHistory" \in DOMAIN p THEN p.executionHistory ELSE <<>>
Field(entry, k, default) == IF k \in DOMAIN entry THEN entry[k] ELSE default
Least(a, b) == IF a <= b THEN a ELSE b
RecentKinds == {"RecentExecution", "RecentStatus", "RecentWarnings", "RecentWarning"}
LastRunKinds == {"LastRun", "LastStatus", "ItemsProcessed", "ItemsFailed",
                 "ErrorsHeader", "Error", "ErrorKey", "ErrorName",
                 "WarningsHeader", "Warning", "WarningKey", "WarningName",
                 "WarningDetails"}

\* C3: with an execution history of at most one entry no "Recent Execution"
\* section is printed; with two or more entries the section shows the status
\* of the second entry, and the warning count and the up to 5 warning
\* messages of that same second entry.
C3_SecondEntryShown ==
    Reported =>
        LET h == HistoryOf(Payload)
        IN IF Len(h) <= 1
           THEN Select(rout, RecentKinds) = <<>>
           ELSE LET w == Field(h[2], "warnings", <<>>)
                IN /\ Select(rout, {"RecentExecution"}) = <<[l |-> "RecentExecution"]>>
                   /\ Select(rout, {"RecentStatus"})
                          = <<[l |-> "RecentStatus", v |-> Field(h[2], "status", "None")]>>
                   /\ Select(rout, {"RecentWarnings"})
                          = (IF w = <<>> THEN <<>>
                             ELSE <<[l |-> "RecentWarnings", n |-> Len(w)]>>)
                   /\ Select(rout, {"RecentWarning"})
                          = [i \in 1..Least(Len(w), 5) |->
                                [l |-> "RecentWarning", i |-> i,
                                 v |-> Field(w[i], "message", "Unknown")]]

\* C4: for a most recent run with W > 0 warnings the WARNINGS header shows W
\* and exactly the first min(W, 20) warnings are listed in order, numbered
\* from 1, each with message (default "Unknown warning"), key, name and
\* details (default "N/A"); with no warnings no WARNINGS block is printed.
C4_WarningsBlock ==
    Reported =>
        LET w == WarningsOf(Payload)
        IN /\ Select(rout, {"WarningsHeader"})
                  = (IF w = <<>> THEN <<>>
                     ELSE <<[l |-> "WarningsHeader", n |-> Len(w)]>>)
           /\ Select(rout, {"Warning", "WarningKey", "WarningName", "WarningDetails"})
                  = Flatten([i \in 1..Least(Len(w), 20) |->
                      <<[l |-> "Warning", i |-> i,
                         v |-> Field(w[i], "message", "Unknown warning")],
                        [l |-> "WarningKey", v |-> Field(w[i], "key", "N/A")],
                        [l |-> "WarningName", v |-> Field(w[i], "name", "N/A")],
                        [l |-> "WarningDetails", v |-> Field(w[i], "details", "N/A")]>>])

C4_Witness ==
    /\ Reported
    /\ Len(WarningsOf(Payload)) = 21
    /\ Len(Select(rout, {"Warning"})) = 20
    /\ \E i \in 1..20 : DOMAIN WarningsOf(Payload)[i] = {}

\* the ERRORS block when each listed error shows the member named by msg
ErrorsBlockShows(msg) ==
    Reported =>
        LET e == ErrorsOf(Payload)
        IN /\ Select(rout, {"ErrorsHeader"})
                  = (IF e = <<>> THEN <<>>
                     ELSE <<[l |-> "ErrorsHeader", n |-> Len(e)]>>)
           /\ Select(rout, {"Error", "ErrorKey", "ErrorName"})
                  = Flatten([i \in 1..Least(Len(e), 10) |->
                      <<[l |-> "Error", i |-> i,
                         v |-> Field(e[i], msg, "Unknown error")],
                        [l |-> "ErrorKey", v |-> Field(e[i], "key", "N/A")],
                        [l |-> "ErrorName", v |-> Field(e[i], "name", "N/A")]>>])

\* C5 as stated: for a most recent run with E > 0 errors the ERRORS header
\* shows E and the first min(E, 10) errors are listed, each showing the
\* entry's message member, "Unknown error" only when it has none, and key and
\* name (default "N/A").
C5_Original == ErrorsBlockShows("message")

\* C5 as amended: each listed error shows the entry's errorMessage member,
\* and "Unknown error" whenever the entry has no errorMessage, also when it
\* has a message member; the rest as stated.
C5_Amended == ErrorsBlockShows("errorMessage")

C5_Witness ==
    /\ Reported
    /\ Len(ErrorsOf(Payload)) = 11
    /\ Len(Select(rout, {"Error"})) = 10
    /\ \E i \in 1..10 :
        /\ "message" \in DOMAIN ErrorsOf(Payload)[i]
        /\ "errorMessage" \notin DOMAIN ErrorsOf(Payload)[i]
        /\ Select(rout, {"Error"})[i].v = "Unknown error"

C10_NoLastRun ==
    (Reported /\ ("lastResult" \in DOMAIN Payload =>
                    \/ Payload.lastResult.t = "null"
                    \/ DOMAIN Payload.lastResult.o = {})) =>
        /\ Select(rout, LastRunKinds) = <<>>
        /\ Select(rout, {"Indexer", "Status"}) = SubSeq(rout, 1, 2)
        /\ Len(rout) = 2 + Len(Select(rout, RecentKinds))
        /\ Select(rout, {"RecentExecution"}) # <<>> <=> Len(HistoryOf(Payload)) > 1
        /\ ret = [t |-> "value", v |-> Payload]

C10_Witness ==
    /\ Reported
    /\ "lastResult" \in DOMAIN Payload
    /\ Payload.lastResult.t = "obj"
    /\ DOMAIN Payload.lastResult.o = {}
    /\ Len(HistoryOf(Payload)) = 2
    /\ Select(rout, {"RecentExecution"}) # <<>>

=============================================================================
